---------------------------- MODULE Spec2Model ----------------------------
(***************************************************************************)
(* Lagrange/Gauss reduction of the lattice spanned by (n,0) and (k,1), as  *)
(* implemented in src/src/backend/w32/lagrange.rs on fixed-width integers  *)
(* made of limbs.  A big integer is a function from 0..N-1 to limbs, least *)
(* significant limb first, exactly as the [u32; N] arrays of the source.   *)
(* The source's limbs are u32; here a limb has w bits, where w is carried  *)
(* in the family record of the engine instantiation, so that the state     *)
(* space is one TLC can enumerate.  Every limb operation is taken modulo   *)
(* 2^w where the source's is taken modulo 2^32.                            *)
(***************************************************************************)
EXTENDS Integers, Sequences, FiniteSets, TLC

(***************************************************************************)
(* Bounds of the model.                                                    *)
(***************************************************************************)
\* bits per limb in the engine and entry-point specifications
EngineW == 1
\* inputs n of the engine specifications are below 2^NBits
NBits == 8
\* bits per limb in the dispatch specification
DispatchW == 1
\* inputs k, n of the dispatch specification are at most DMaxVal
DMaxVal == 3
\* budgets of the dispatch specification are 1 .. DMaxBudget
DMaxBudget == 2
\* limb width, in bits, of the integers the bigint specifications draw
BigW == 2
\* limb count of the operands of the shifted additions and subtractions
ShiftN == 3
\* the bit lengths are taken of integers of 1 .. BitlenMaxN limbs
BitlenMaxN == 4
\* iterations after which the whole-run operator gives up
MaxFuel == 40
\* the engine specifications try every BudgetStep-th value of max_bitlen
BudgetStep == 7
\* inputs k of the termination specification are at most LiveMaxK
LiveMaxK == 2

(***************************************************************************)
(* Word primitives (src/src/backend/w32/mod.rs).                           *)
(***************************************************************************)
Base(w) == 2^w

\* (x, y, c_in) -> x + y + c_in mod 2^w, c_out
addcarry_u32(x, y, c, w) ==
    LET z == (x + y + c) % (Base(w) * Base(w))
    IN  <<z % Base(w), z \div Base(w)>>

\* (x, y, c_in) -> x - y - c_in mod 2^w, c_out: the borrow is the top bit
\* of the double-width wrapped difference
subborrow_u32(x, y, c, w) ==
    LET z == (x - y - c) % (Base(w) * Base(w))
    IN  <<z % Base(w), z \div ((Base(w) * Base(w)) \div 2)>>

\* x*y + z over a double word, as (lo, hi)
umull_add(x, y, z, w) ==
    LET t == (x * y + z) % (Base(w) * Base(w))
    IN  <<t % Base(w), t \div Base(w)>>

\* x*y + z1 + z2 over a double word, as (lo, hi)
umull_add2(x, y, z1, z2, w) ==
    LET t == (x * y + z1 + z2) % (Base(w) * Base(w))
    IN  <<t % Base(w), t \div Base(w)>>

\* all-ones if the top bit of x is set, 0 otherwise
sgnw(x, w) == IF x >= Base(w) \div 2 THEN Base(w) - 1 ELSE 0

RECURSIVE BitXor(_, _)
BitXor(x, y) ==
    IF x = 0 THEN y
    ELSE IF y = 0 THEN x
    ELSE (((x % 2) + (y % 2)) % 2) + 2 * BitXor(x \div 2, y \div 2)

RECURSIVE BitOr(_, _)
BitOr(x, y) ==
    IF x = 0 THEN y
    ELSE IF y = 0 THEN x
    ELSE (IF (x % 2) + (y % 2) > 0 THEN 1 ELSE 0) + 2 * BitOr(x \div 2, y \div 2)

RECURSIVE BitLen(_)
BitLen(x) == IF x = 0 THEN 0 ELSE 1 + BitLen(x \div 2)

\* u32::leading_zeros at limb width w
leading_zeros(x, w) == w - BitLen(x)

\* x << s and x >> s on one limb
Shl(x, s, w) == (x * 2^s) % Base(w)
Shr(x, s) == x \div 2^s

(***************************************************************************)
(* Fixed-width integers (macro define_bigint).                             *)
(***************************************************************************)
NLimbs(a) == Cardinality(DOMAIN a)

ZERO(N) == [i \in 0..N-1 |-> 0]

\* the first N limbs of a (a[..N] in the source)
Low(a, N) == [i \in 0..N-1 |-> a[i]]

RECURSIVE LtLoop(_, _, _, _, _)
LtLoop(a, b, i, cc, w) ==
    IF i >= NLimbs(a) THEN cc
    ELSE LtLoop(a, b, i + 1, subborrow_u32(a[i], b[i], cc, w)[2], w)

\* lt with the final borrow read the wrong way round
lt_flipped(a, b, w) ==
    LtLoop(a, b, 1, subborrow_u32(a[0], b[0], 0, w)[2], w) = 0

\* true iff self < rhs (inputs must be nonnegative)
lt(a, b, w) == LtLoop(a, b, 1, subborrow_u32(a[0], b[0], 0, w)[2], w) # 0

RECURSIVE BitlengthLoop(_, _, _, _)
BitlengthLoop(a, m, i, w) ==
    IF i < 0 THEN 0
    ELSE LET aw == BitXor(a[i], m)
         IN  IF aw # 0 THEN w * i + w - leading_zeros(aw, w)
             ELSE BitlengthLoop(a, m, i - 1, w)

\* the bit length without the sign mask
bitlength_nomask(a, w) == BitlengthLoop(a, 0, NLimbs(a) - 1, w)

\* length in bits of the value, after canonicalising by the sign mask
bitlength(a, w) ==
    BitlengthLoop(a, sgnw(a[NLimbs(a) - 1], w), NLimbs(a) - 1, w)

\* ltnw looking one limb too high
ltnw_high(a, s, w) ==
    /\ \A i \in (s + 1)..NLimbs(a)-1 : a[i] = 0
    /\ a[s] < Base(w) \div 2

\* true iff self < 2^(w*s - 1), self nonnegative, 0 < s <= N
ltnw(a, s, w) ==
    /\ \A i \in s..NLimbs(a)-1 : a[i] = 0
    /\ a[s - 1] < Base(w) \div 2

is_negative(a, w) == a[NLimbs(a) - 1] >= Base(w) \div 2

\* the carry chain shared by the four paths of set_add_shifted: adds the
\* words bw[i] into a[i] for i = from .. N-1, the carry starting at 0
RECURSIVE AddChain(_, _, _, _, _)
AddChain(a, bw, i, cc, w) ==
    IF i >= NLimbs(a) THEN a
    ELSE LET r == addcarry_u32(a[i], bw[i], cc, w)
         IN  AddChain([a EXCEPT ![i] = r[1]], bw, i + 1, r[2], w)

RECURSIVE SubChain(_, _, _, _, _)
SubChain(a, bw, i, cc, w) ==
    IF i >= NLimbs(a) THEN a
    ELSE LET r == subborrow_u32(a[i], bw[i], cc, w)
         IN  SubChain([a EXCEPT ![i] = r[1]], bw, i + 1, r[2], w)

\* the word added at limb i on each of the four paths
WordsPlain(rhs) == rhs
WordsBits(rhs, s, w) ==
    [i \in DOMAIN rhs |->
        IF i = 0 THEN Shl(rhs[0], s, w)
        ELSE BitOr(Shr(rhs[i - 1], w - s), Shl(rhs[i], s, w))]
WordsLimbs(rhs, j) ==
    [i \in DOMAIN rhs |-> IF i < j THEN 0 ELSE rhs[i - j]]
\* the fourth path without the bits that come up from the limb below
WordsLimbsBits_nolow(rhs, j, s, w) ==
    [i \in DOMAIN rhs |->
        IF i < j THEN 0 ELSE Shl(rhs[i - j], s, w)]

WordsLimbsBits(rhs, j, s, w) ==
    [i \in DOMAIN rhs |->
        IF i < j THEN 0
        ELSE IF i = j THEN Shl(rhs[0], s, w)
        ELSE BitOr(Shr(rhs[i - j - 1], w - s), Shl(rhs[i - j], s, w))]

\* the words (2^s)*rhs contributes, and the limb the chain starts at; a
\* start of N means the early return of the source (j >= N)
ShiftedWords(rhs, s, w) ==
    IF s < w THEN
        IF s = 0 THEN [from |-> 0, bw |-> WordsPlain(rhs)]
        ELSE [from |-> 0, bw |-> WordsBits(rhs, s, w)]
    ELSE
        LET j  == s \div w
            s2 == s % w
        IN  IF j >= NLimbs(rhs) THEN [from |-> NLimbs(rhs), bw |-> rhs]
            ELSE IF s2 = 0 THEN [from |-> j, bw |-> WordsLimbs(rhs, j)]
            ELSE [from |-> j, bw |-> WordsLimbsBits(rhs, j, s2, w)]

\* self + (2^s)*rhs
set_add_shifted(a, rhs, s, w) ==
    LET sw == ShiftedWords(rhs, s, w)
    IN  AddChain(a, sw.bw, sw.from, 0, w)

\* self - (2^s)*rhs
set_sub_shifted(a, rhs, s, w) ==
    LET sw == ShiftedWords(rhs, s, w)
    IN  SubChain(a, sw.bw, sw.from, 0, w)

(***************************************************************************)
(* The engine instantiations (macro define_lagrange).  A family gives the  *)
(* limb width w and the limb counts of the four integer types: N0 for the  *)
(* coordinates, N1 for the operands, N2 for the Gram values after the      *)
(* shrink, N3 for the full Gram values.  The limb counts are the source's. *)
(***************************************************************************)
\* const N of define_bigint, from the bit length the source declares
LimbsOf(bitlen) == (bitlen + 31) \div 32

lagrange256_vartime(w) ==
    [w |-> w, N0 |-> LimbsOf(128), N1 |-> LimbsOf(256),
     N2 |-> LimbsOf(384), N3 |-> LimbsOf(512)]
lagrange320_vartime(w) ==
    [w |-> w, N0 |-> LimbsOf(192), N1 |-> LimbsOf(320),
     N2 |-> LimbsOf(448), N3 |-> LimbsOf(640)]
lagrange384_vartime(w) ==
    [w |-> w, N0 |-> LimbsOf(192), N1 |-> LimbsOf(384),
     N2 |-> LimbsOf(512), N3 |-> LimbsOf(768)]
lagrange448_vartime(w) ==
    [w |-> w, N0 |-> LimbsOf(256), N1 |-> LimbsOf(448),
     N2 |-> LimbsOf(640), N3 |-> LimbsOf(896)]
lagrange512_vartime(w) ==
    [w |-> w, N0 |-> LimbsOf(256), N1 |-> LimbsOf(512),
     N2 |-> LimbsOf(768), N3 |-> LimbsOf(1024)]

\* inner loop of umul: j = 1 .. N1-1, stopping when i + j reaches N3
RECURSIVE UmulInner(_, _, _, _, _, _, _)
UmulInner(d, a, b, i, j, cc, w) ==
    IF j >= NLimbs(b) \/ (i + j) >= NLimbs(d) THEN [d |-> d, cc |-> cc]
    ELSE LET r == umull_add2(a[i], b[j], d[i + j], cc, w)
         IN  UmulInner([d EXCEPT ![i + j] = r[1]], a, b, i, j + 1, r[2], w)

RECURSIVE UmulOuter(_, _, _, _, _)
UmulOuter(d, a, b, i, w) ==
    IF i >= NLimbs(a) THEN d
    ELSE LET r0 == umull_add(a[i], b[0], d[i], w)
             in == UmulInner([d EXCEPT ![i] = r0[1]], a, b, i, 1, r0[2], w)
             d2 == IF i + NLimbs(a) < NLimbs(d)
                   THEN [in.d EXCEPT ![i + NLimbs(a)] = in.cc]
                   ELSE in.d
         IN  UmulOuter(d2, a, b, i + 1, w)

\* product of two nonnegative N1-limb integers, as an N3-limb integer
umul(a, b, N3, w) == UmulOuter(ZERO(N3), a, b, 0, w)

\* the value of a limb array read as an unsigned integer (used on inputs)
RECURSIVE ToIntFrom(_, _, _)
ToIntFrom(a, i, w) ==
    IF i >= NLimbs(a) THEN 0 ELSE a[i] + Base(w) * ToIntFrom(a, i + 1, w)
ToInt(a, w) == ToIntFrom(a, 0, w)

\* the N-limb two's complement pattern of the integer x
RECURSIVE ToLimbsFrom(_, _, _, _)
ToLimbsFrom(x, i, N, w) ==
    IF i >= N THEN <<>>
    ELSE <<x % Base(w)>> \o ToLimbsFrom(x \div Base(w), i + 1, N, w)
ToLimbs(x, N, w) ==
    LET sq == ToLimbsFrom(x, 0, N, w) IN [i \in 0..N-1 |-> sq[i + 1]]

\* nv = umul(k, k) + 1, the carry propagated over all N3 limbs
AddOne(a, w) ==
    AddChain(a, [i \in DOMAIN a |-> IF i = 0 THEN 1 ELSE 0], 0, 0, w)

(***************************************************************************)
(* The locals of the engine after its initialisation.  bl_nv is the value  *)
(* the last iteration computed (-1: none yet); last_bl_sp and stuck exist  *)
(* from the shrink on.  eu and ev are not in the source: they are the      *)
(* exact integer vectors u and v, obtained from (n,0) and (k,1) by the     *)
(* same swaps and updates without truncation.                              *)
(***************************************************************************)
\* the initialisation without v1.0[0] = 1
EngineLocals_v1zero(f, kk, nn) ==
    [u0 |-> Low(nn, f.N0), u1 |-> ZERO(f.N0),
     v0 |-> Low(kk, f.N0), v1 |-> ZERO(f.N0),
     nu |-> umul(nn, nn, f.N3, f.w),
     nv |-> AddOne(umul(kk, kk, f.N3, f.w), f.w),
     sp |-> umul(nn, kk, f.N3, f.w),
     first |-> TRUE, bl_nv |-> -1, last_bl_sp |-> 0, stuck |-> 0,
     prev_bl_sp |-> -1, nodec |-> 0,
     eu |-> <<ToInt(nn, f.w), 0>>, ev |-> <<ToInt(kk, f.w), 1>>]

EngineLocals(f, kk, nn) ==
    [u0 |-> Low(nn, f.N0), u1 |-> ZERO(f.N0),
     v0 |-> Low(kk, f.N0), v1 |-> [ZERO(f.N0) EXCEPT ![0] = 1],
     nu |-> umul(nn, nn, f.N3, f.w),
     nv |-> AddOne(umul(kk, kk, f.N3, f.w), f.w),
     sp |-> umul(nn, kk, f.N3, f.w),
     first |-> TRUE, bl_nv |-> -1, last_bl_sp |-> 0, stuck |-> 0,
     prev_bl_sp |-> -1, nodec |-> 0,
     eu |-> <<ToInt(nn, f.w), 0>>, ev |-> <<ToInt(kk, f.w), 1>>]

\* if u is smaller than v, swap u and v
Swap(r, w) ==
    IF lt(r.nu, r.nv, w)
    THEN [r EXCEPT !.u0 = r.v0, !.v0 = r.u0, !.u1 = r.v1, !.v1 = r.u1,
                   !.nu = r.nv, !.nv = r.nu, !.eu = r.ev, !.ev = r.eu]
    ELSE r

\* s = len(sp) - len(nv), replaced with 0 if negative
ShiftAmount(bl_sp, bl_nv) ==
    IF bl_sp - bl_nv < 0 THEN 0 ELSE bl_sp - bl_nv

\* Reduce with u1 updated by the other branch's operation when sp >= 0
Reduce_u1(r, s, w) ==
    IF r.first \/ ~is_negative(r.sp, w)
    THEN [r EXCEPT
            !.first = FALSE,
            !.u0 = set_sub_shifted(r.u0, r.v0, s, w),
            !.u1 = set_add_shifted(r.u1, r.v1, s, w),
            !.nu = set_sub_shifted(set_add_shifted(r.nu, r.nv, 2 * s, w),
                                   r.sp, s + 1, w),
            !.sp = set_sub_shifted(r.sp, r.nv, s, w),
            !.eu = <<r.eu[1] - r.ev[1] * 2^s, r.eu[2] - r.ev[2] * 2^s>>]
    ELSE [r EXCEPT
            !.u0 = set_add_shifted(r.u0, r.v0, s, w),
            !.u1 = set_add_shifted(r.u1, r.v1, s, w),
            !.nu = set_add_shifted(set_add_shifted(r.nu, r.nv, 2 * s, w),
                                   r.sp, s + 1, w),
            !.sp = set_add_shifted(r.sp, r.nv, s, w),
            !.eu = <<r.eu[1] + r.ev[1] * 2^s, r.eu[2] + r.ev[2] * 2^s>>]

\* Reduce with sp taken into nu at shift s instead of s + 1
Reduce_shift(r, s, w) ==
    IF r.first \/ ~is_negative(r.sp, w)
    THEN [r EXCEPT
            !.first = FALSE,
            !.u0 = set_sub_shifted(r.u0, r.v0, s, w),
            !.u1 = set_sub_shifted(r.u1, r.v1, s, w),
            !.nu = set_sub_shifted(set_add_shifted(r.nu, r.nv, 2 * s, w),
                                   r.sp, s, w),
            !.sp = set_sub_shifted(r.sp, r.nv, s, w),
            !.eu = <<r.eu[1] - r.ev[1] * 2^s, r.eu[2] - r.ev[2] * 2^s>>]
    ELSE [r EXCEPT
            !.u0 = set_add_shifted(r.u0, r.v0, s, w),
            !.u1 = set_add_shifted(r.u1, r.v1, s, w),
            !.nu = set_add_shifted(set_add_shifted(r.nu, r.nv, 2 * s, w),
                                   r.sp, s, w),
            !.sp = set_add_shifted(r.sp, r.nv, s, w),
            !.eu = <<r.eu[1] + r.ev[1] * 2^s, r.eu[2] + r.ev[2] * 2^s>>]

\* subtract or add v*2^s from/to u, depending on the sign of sp
Reduce(r, s, w) ==
    IF r.first \/ ~is_negative(r.sp, w)
    THEN [r EXCEPT
            !.first = FALSE,
            !.u0 = set_sub_shifted(r.u0, r.v0, s, w),
            !.u1 = set_sub_shifted(r.u1, r.v1, s, w),
            !.nu = set_sub_shifted(set_add_shifted(r.nu, r.nv, 2 * s, w),
                                   r.sp, s + 1, w),
            !.sp = set_sub_shifted(r.sp, r.nv, s, w),
            !.eu = <<r.eu[1] - r.ev[1] * 2^s, r.eu[2] - r.ev[2] * 2^s>>]
    ELSE [r EXCEPT
            !.u0 = set_add_shifted(r.u0, r.v0, s, w),
            !.u1 = set_add_shifted(r.u1, r.v1, s, w),
            !.nu = set_add_shifted(set_add_shifted(r.nu, r.nv, 2 * s, w),
                                   r.sp, s + 1, w),
            !.sp = set_add_shifted(r.sp, r.nv, s, w),
            !.eu = <<r.eu[1] + r.ev[1] * 2^s, r.eu[2] + r.ev[2] * 2^s>>]

\* the stall counter may exceed this before the second loop gives up
StuckLimit == 3

\* one iteration of the first loop: the position reached and the locals
Phase1Iter(r, f, mb) ==
    LET a == Swap(r, f.w)
        bl_nv == bitlength(a.nv, f.w)
        bl_sp == bitlength(a.sp, f.w)
        c == [a EXCEPT !.bl_nv = bl_nv]
    IN  IF ltnw(a.nu, f.N2, f.w) THEN [pc |-> "shrink", e |-> a]
        ELSE IF bl_nv <= mb THEN [pc |-> "ret_budget", e |-> c]
        ELSE [pc |-> "phase1",
              e |-> Reduce(c, ShiftAmount(bl_sp, bl_nv), f.w)]

\* nu, nv and sp cut to their low N2 limbs; the stall state of loop two
ShrinkLocals(r, f) ==
    [r EXCEPT !.nu = Low(r.nu, f.N2), !.nv = Low(r.nv, f.N2),
              !.sp = Low(r.sp, f.N2),
              !.last_bl_sp = bitlength(Low(r.sp, f.N2), f.w),
              !.stuck = 0,
              !.prev_bl_sp = bitlength(Low(r.sp, f.N2), f.w),
              !.nodec = 0]

\* the step of an iteration of the second loop, with the history the
\* properties read: prev_bl_sp is the bit length of sp the iteration saw,
\* nodec counts the steps in a row that did not leave sp strictly shorter
Phase2Step(b, bl_sp, bl_nv, w) ==
    LET d == Reduce(b, ShiftAmount(bl_sp, bl_nv), w)
    IN  [d EXCEPT !.prev_bl_sp = bl_sp,
                  !.nodec = IF bitlength(d.sp, w) >= bl_sp
                            THEN b.nodec + 1 ELSE 0]

\* the second loop without the return on a bit length of sp that went up
Phase2Iter_noup(r, f, mb) ==
    LET a == Swap(r, f.w)
        bl_nv == bitlength(a.nv, f.w)
        bl_sp == bitlength(a.sp, f.w)
        c == [a EXCEPT !.bl_nv = bl_nv]
        b == IF bl_sp >= a.last_bl_sp
             THEN [c EXCEPT !.stuck = a.stuck + 1]
             ELSE [c EXCEPT !.last_bl_sp = bl_sp, !.stuck = 0]
    IN  IF bl_nv <= mb THEN [pc |-> "ret_budget", e |-> c]
        ELSE IF bl_sp >= a.last_bl_sp /\ b.stuck > StuckLimit
        THEN [pc |-> "ret_stall", e |-> b]
        ELSE [pc |-> "phase2", e |-> Phase2Step(b, bl_sp, bl_nv, f.w)]

\* one iteration of the second loop
Phase2Iter(r, f, mb) ==
    LET a == Swap(r, f.w)
        bl_nv == bitlength(a.nv, f.w)
        bl_sp == bitlength(a.sp, f.w)
        c == [a EXCEPT !.bl_nv = bl_nv]
        b == IF bl_sp >= a.last_bl_sp
             THEN [c EXCEPT !.stuck = a.stuck + 1]
             ELSE [c EXCEPT !.last_bl_sp = bl_sp, !.stuck = 0]
    IN  IF bl_nv <= mb THEN [pc |-> "ret_budget", e |-> c]
        ELSE IF bl_sp >= a.last_bl_sp
                /\ (bl_sp > a.last_bl_sp \/ b.stuck > StuckLimit)
        THEN [pc |-> "ret_stall", e |-> b]
        ELSE [pc |-> "phase2", e |-> Phase2Step(b, bl_sp, bl_nv, f.w)]

\* the engine run to its return (or until the fuel is spent)
RECURSIVE Run(_, _, _, _, _)
Run(pcv, r, f, mb, fuel) ==
    IF pcv \in {"ret_budget", "ret_stall"} \/ fuel = 0
    THEN [pc |-> pcv, e |-> r]
    ELSE IF pcv = "phase1"
    THEN LET x == Phase1Iter(r, f, mb) IN Run(x.pc, x.e, f, mb, fuel - 1)
    ELSE IF pcv = "shrink"
    THEN Run("phase2", ShrinkLocals(r, f), f, mb, fuel - 1)
    ELSE LET x == Phase2Iter(r, f, mb) IN Run(x.pc, x.e, f, mb, fuel - 1)

Engine(f, kk, nn, mb) == Run("phase1", EngineLocals(f, kk, nn), f, mb, MaxFuel)

(***************************************************************************)
(* State.  pc is the position of the running call; call holds the caller's *)
(* arguments; fam, k, n and max_bitlen are the parameters of the running   *)
(* engine instantiation and e its locals; out is what the entry point      *)
(* handed back to the caller.  mark is not in the source: it remembers the *)
(* position and locals one earlier iteration started from, so that an      *)
(* iteration starting from the same locals again can be told.              *)
(***************************************************************************)
VARIABLES pc, call, fam, k, n, max_bitlen, e, out, mark

vars == <<pc, call, fam, k, n, max_bitlen, e, out, mark>>

None == [none |-> TRUE]

\* the engine is entered: initialisation up to the first loop
Start(f, kk, nn, mb) ==
    /\ fam' = f
    /\ k' = kk
    /\ n' = nn
    /\ max_bitlen' = mb
    /\ e' = EngineLocals(f, kk, nn)
    /\ pc' = "phase1"

Phase1 ==
    /\ pc = "phase1"
    /\ LET r == Phase1Iter(e, fam, max_bitlen)
       IN  pc' = r.pc /\ e' = r.e
    /\ UNCHANGED <<call, fam, k, n, max_bitlen, out, mark>>

Shrink ==
    /\ pc = "shrink"
    /\ e' = ShrinkLocals(e, fam)
    /\ pc' = "phase2"
    /\ UNCHANGED <<call, fam, k, n, max_bitlen, out, mark>>

Phase2 ==
    /\ pc = "phase2"
    /\ LET r == Phase2Iter(e, fam, max_bitlen)
       IN  pc' = r.pc /\ e' = r.e
    /\ UNCHANGED <<call, fam, k, n, max_bitlen, out, mark>>

\* the same iterations, the state they started from remembered
Phase1Marked ==
    /\ pc = "phase1"
    /\ mark = None
    /\ LET r == Phase1Iter(e, fam, max_bitlen)
       IN  pc' = r.pc /\ e' = r.e
    /\ mark' = [pc |-> pc, e |-> e]
    /\ UNCHANGED <<call, fam, k, n, max_bitlen, out>>

Phase2Marked ==
    /\ pc = "phase2"
    /\ mark = None
    /\ LET r == Phase2Iter(e, fam, max_bitlen)
       IN  pc' = r.pc /\ e' = r.e
    /\ mark' = [pc |-> pc, e |-> e]
    /\ UNCHANGED <<call, fam, k, n, max_bitlen, out>>

Returned == pc \in {"ret_budget", "ret_stall"}

(***************************************************************************)
(* A direct call of an engine instantiation.                               *)
(***************************************************************************)
EngineCall ==
    /\ pc = "call"
    /\ Start(call.fam, call.k, call.n, call.max_bitlen)
    /\ UNCHANGED <<call, out, mark>>

(***************************************************************************)
(* lagrange253_vartime: lagrange256_vartime with the budget of 254 bits    *)
(* (two bits less than the operand width), the low four limbs of each      *)
(* coordinate packed into an i128.                                         *)
(***************************************************************************)
\* a budget one bit too large
Budget253_255(w) == 8 * w - 1

Budget253(w) == 8 * w - 2

\* c = v[3]; for i in (0..3).rev() { c = (c << w) | v[i] }
RECURSIVE Pack(_, _, _, _)
Pack(v, i, c, w) ==
    IF i < 0 THEN c
    ELSE Pack(v, i - 1, BitOr((c * Base(w)) % 2^(4 * w), v[i]), w)

\* u128 as i128, at four limbs
AsI128(c, w) == IF c >= 2^(4 * w - 1) THEN c - 2^(4 * w) ELSE c

Lagrange253Call ==
    /\ pc = "call"
    /\ Start(lagrange256_vartime(call.w), call.k, call.n, Budget253(call.w))
    /\ UNCHANGED <<call, out, mark>>

Lagrange253Return ==
    /\ Returned
    /\ out' = <<AsI128(Pack(e.v0, 2, e.v0[3], fam.w), fam.w),
                AsI128(Pack(e.v1, 2, e.v1[3], fam.w), fam.w)>>
    /\ pc' = "done"
    /\ UNCHANGED <<call, fam, k, n, max_bitlen, e, mark>>

(***************************************************************************)
(* lagrange_vartime: the dispatch on the length of n.                      *)
(***************************************************************************)
\* the length rounded down to an even count instead of up
RoundLen_down(len) == (len \div 2) * 2

\* nlen = (n.len() + 1) & !1
RoundLen(len) == ((len + 1) \div 2) * 2

\* the 16-limb buffer nk (or nn) with the slice copied to its start
Expand(a) == [i \in 0..15 |-> IF i < NLimbs(a) THEN a[i] ELSE 0]

\* the match on nlen
Instantiation(nlen, w) ==
    CASE nlen = 8  -> lagrange256_vartime(w)
      [] nlen = 10 -> lagrange320_vartime(w)
      [] nlen = 12 -> lagrange384_vartime(w)
      [] nlen = 14 -> lagrange448_vartime(w)
      [] nlen = 16 -> lagrange512_vartime(w)

\* the call panics before the engine runs: unimplemented!() on the length
\* of n, or the copy of k past the end of the 16-limb buffer
PanicsOnEntry(c) ==
    \/ NLimbs(c.n) < 8
    \/ NLimbs(c.n) > 16
    \/ NLimbs(c.k) > 16

DispatchCall ==
    /\ pc = "call"
    /\ IF PanicsOnEntry(call)
       THEN /\ pc' = "panic"
            /\ UNCHANGED <<fam, k, n, max_bitlen, e>>
       ELSE LET nlen == RoundLen(NLimbs(call.n))
            IN  Start(Instantiation(nlen, call.w), Low(Expand(call.k), nlen),
                      Low(Expand(call.n), nlen), call.max_bitlen)
    /\ UNCHANGED <<call, out, mark>>

\* c0.copy_from_slice(&v0[..c0.len()]) panics when c0 is longer than v0
DispatchReturn ==
    /\ Returned
    /\ IF call.c0len > fam.N0 \/ call.c1len > fam.N0
       THEN pc' = "panic" /\ out' = out
       ELSE /\ pc' = "done"
            /\ out' = <<Low(e.v0, call.c0len), Low(e.v1, call.c1len)>>
    /\ UNCHANGED <<call, fam, k, n, max_bitlen, e, mark>>

(***************************************************************************)
(* Specifications.                                                         *)
(***************************************************************************)
Min(a, b) == IF a < b THEN a ELSE b

\* n < Nmax = floor(2^mb / (2/sqrt(3))), the bound below which a vector of
\* squared norm under 2^mb exists (mb = 254 in the source)
BelowNmax(nn, mb) == 4 * (nn + 1) * (nn + 1) <= 3 * 2^(2 * mb)

Idle ==
    /\ pc = "call"
    /\ fam = None /\ k = None /\ n = None /\ max_bitlen = 0
    /\ e = None /\ out = None /\ mark = None

\* the arguments of a direct engine call
EngineArgs(f, kk, nn, mb) ==
    [fam |-> f, k |-> ToLimbs(kk, f.N1, f.w), n |-> ToLimbs(nn, f.N1, f.w),
     max_bitlen |-> mb]

IsPrime(x) == x > 1 /\ \A d \in 2..(x - 1) : x % d # 0

\* the budgets tried: every BudgetStep-th value up to past the width of N3
Budgets(f) == {mb \in 0..(f.N3 * f.w + 1) : mb % BudgetStep = 0}

\* every prime n < 2^NBits of the operand width, every 0 <= k < n
InitEngine ==
    /\ Idle
    /\ LET f == lagrange256_vartime(EngineW)
       IN  \E nn \in 1..(Min(2^NBits, 2^(f.N1 * f.w)) - 1) :
           \E kk \in 0..(nn - 1) :
           \E mb \in Budgets(f) :
               /\ IsPrime(nn)
               /\ call = EngineArgs(f, kk, nn, mb)
NextEngine == EngineCall \/ Phase1 \/ Shrink \/ Phase2
SpecEngine == InitEngine /\ [][NextEngine]_vars

\* the engine on the small k and every budget from 1 on, with the iterations
\* that remember their start
InitLoop ==
    /\ Idle
    /\ LET f == lagrange256_vartime(EngineW)
       IN  \E nn \in 1..(Min(2^NBits, 2^(f.N1 * f.w)) - 1) :
           \E kk \in 0..Min(nn - 1, LiveMaxK) :
           \E mb \in 1..(f.N3 * f.w + 1) :
               /\ IsPrime(nn)
               /\ call = EngineArgs(f, kk, nn, mb)
NextLoop ==
    EngineCall \/ Phase1 \/ Shrink \/ Phase2 \/ Phase1Marked \/ Phase2Marked
SpecLoop == InitLoop /\ [][NextLoop]_vars

\* the arguments of a call of lagrange253_vartime
Args253(kk, nn, w) == [w |-> w, k |-> ToLimbs(kk, 8, w), n |-> ToLimbs(nn, 8, w)]

\* every 0 <= k < n < Nmax
Init253 ==
    /\ Idle
    /\ \E nn \in 1..(Min(2^NBits, 2^(8 * EngineW)) - 1) :
       \E kk \in 0..(nn - 1) :
           /\ BelowNmax(nn, 8 * EngineW - 2)
           /\ call = Args253(kk, nn, EngineW)
Next253 == Lagrange253Call \/ Phase1 \/ Shrink \/ Phase2 \/ Lagrange253Return
Spec253 == Init253 /\ [][Next253]_vars

\* the arguments of a call of lagrange_vartime: the slices k and n, the
\* budget, and the lengths of the output slices
ArgsDispatch(kk, klen, nn, nlen, mb, c0len, c1len, w) ==
    [w |-> w, k |-> ToLimbs(kk, klen, w), n |-> ToLimbs(nn, nlen, w),
     max_bitlen |-> mb, c0len |-> c0len, c1len |-> c1len]

\* lengths of n from 7 to 17, k as long as n or one limb off, output slices
\* of 4 to 10 limbs, small values of k and n whether or not k < n
InitDispatch ==
    /\ Idle
    /\ \E nlen \in 7..17 :
       \E klen \in {nlen - 1, nlen, nlen + 1} :
       \E c0len \in 4..9 :
       \E c1len \in {c0len, c0len + 1} :
       \E nn \in 1..DMaxVal :
       \E kk \in 0..DMaxVal :
       \E mb \in 1..DMaxBudget :
           call = ArgsDispatch(kk, klen, nn, nlen, mb, c0len, c1len, DispatchW)
NextDispatch == DispatchCall \/ Phase1 \/ Shrink \/ Phase2 \/ DispatchReturn
SpecDispatch == InitDispatch /\ [][NextDispatch]_vars

\* every integer of N limbs of w bits
AllLimbs(N, w) == [0..N-1 -> 0..(Base(w) - 1)]

\* a call of set_add_shifted or set_sub_shifted: self, rhs and the shift,
\* the shifts running past the width by a limb
InitShift ==
    /\ Idle
    /\ \E a \in AllLimbs(ShiftN, BigW) :
       \E b \in AllLimbs(ShiftN, BigW) :
       \E s \in 0..(ShiftN * BigW + BigW) :
           call = [w |-> BigW, a |-> a, b |-> b, s |-> s]

\* self.set_add_shifted(&rhs, s): out holds self and rhs after the call
ShiftedAdd ==
    /\ pc = "call"
    /\ out' = [a |-> set_add_shifted(call.a, call.b, call.s, call.w),
               b |-> call.b]
    /\ pc' = "added"
    /\ UNCHANGED <<call, fam, k, n, max_bitlen, e, mark>>

\* self.set_sub_shifted(&rhs, s)
ShiftedSub ==
    /\ pc = "call"
    /\ out' = [a |-> set_sub_shifted(call.a, call.b, call.s, call.w),
               b |-> call.b]
    /\ pc' = "subbed"
    /\ UNCHANGED <<call, fam, k, n, max_bitlen, e, mark>>

NextShift == ShiftedAdd \/ ShiftedSub
SpecShift == InitShift /\ [][NextShift]_vars

\* a call of bitlength on an integer of 1 to BitlenMaxN limbs
InitBitlength ==
    /\ Idle
    /\ \E N \in 1..BitlenMaxN :
       \E a \in AllLimbs(N, BigW) :
           call = [w |-> BigW, a |-> a]

\* self.bitlength()
Bitlength ==
    /\ pc = "call"
    /\ out' = bitlength(call.a, call.w)
    /\ pc' = "measured"
    /\ UNCHANGED <<call, fam, k, n, max_bitlen, e, mark>>

NextBitlength == Bitlength
SpecBitlength == InitBitlength /\ [][NextBitlength]_vars

(***************************************************************************)
(* Quantities the properties are stated with.                              *)
(***************************************************************************)
\* the operands of the running engine, as integers
InK == ToInt(k, fam.w)
InN == ToInt(n, fam.w)

Norm(v) == v[1] * v[1] + v[2] * v[2]
Dot(a, b) == a[1] * b[1] + a[2] * b[2]
Abs(x) == IF x < 0 THEN -x ELSE x

Running == pc \in {"phase1", "shrink", "phase2"}

(***************************************************************************)
(* C1.  For 0 <= k < n < Nmax, lagrange253_vartime returns (c0, c1), read  *)
(* as signed integers, with k*c1 congruent to c0 modulo n.                 *)
(***************************************************************************)
C1_Congruence ==
    pc = "done" => (InK * out[2] - out[1]) % InN = 0

\* a call that had to reduce, and came back with a negative coordinate
C1_Witness ==
    /\ pc = "done"
    /\ ~e.first
    /\ out[1] < 0
    /\ out[2] > 1
    /\ (InK * out[2] - out[1]) % InN = 0

(***************************************************************************)
(* C2.  For 0 <= k < n < Nmax, lagrange253_vartime leaves the engine by    *)
(* the budget test and never by the stall exit of the second loop; the     *)
(* exact vector found has squared norm below 2^max_bitlen, coordinates of  *)
(* magnitude below 2^(width of i128 - 1), and the values returned are the  *)
(* exact coordinates.                                                      *)
(***************************************************************************)
C2_BudgetExit ==
    /\ pc # "ret_stall"
    /\ pc \in {"ret_budget", "done"} =>
        /\ bitlength(e.nv, fam.w) <= 8 * fam.w - 2
        /\ Norm(e.ev) < 2^(8 * fam.w - 2)
        /\ Abs(e.ev[1]) < 2^(4 * fam.w - 1)
        /\ Abs(e.ev[2]) < 2^(4 * fam.w - 1)
    /\ pc = "done" => out = e.ev

\* a call that went through the shrink and returned from the second loop
\* after reducing there
C2_Witness ==
    /\ pc = "done"
    /\ NLimbs(e.nv) = fam.N2
    /\ e.last_bl_sp < fam.N2 * fam.w
    /\ ~e.first
    /\ e.stuck > 0
    /\ out = e.ev

(***************************************************************************)
(* C7.  For k = 0 the reduction returns (0, 1) or (0, -1).                 *)
(***************************************************************************)
C7_ZeroScalar ==
    (Returned /\ InK = 0) =>
        /\ e.v0 = ZERO(fam.N0)
        /\ e.v1 \in {ToLimbs(1, fam.N0, fam.w), ToLimbs(-1, fam.N0, fam.w)}
        /\ e.ev[1] = 0
        /\ Abs(e.ev[2]) = 1

\* k = 0 returned after steps were taken
C7_Witness ==
    /\ Returned
    /\ InK = 0
    /\ InN > 1
    /\ ~e.first
    /\ e.v0 = ZERO(fam.N0)
    /\ Abs(e.ev[2]) = 1

(***************************************************************************)
(* C3.  Whenever an engine returns v, either the squared norm of v is      *)
(* below 2^max_bitlen or v is a shortest nonzero vector of the lattice     *)
(* spanned by (n,0) and (k,1).                                             *)
(***************************************************************************)
\* the representative of x modulo m of least magnitude
Centered(x, m) == LET r == x % m IN IF 2 * r > m THEN r - m ELSE r

\* no nonzero vector (x, b) of the lattice, x = b*k mod n, is shorter than v
IsShortest(v) ==
    /\ Norm(v) > 0
    /\ InN * InN >= Norm(v)
    /\ \A b \in 1..(InN - 1) :
          \/ b * b >= Norm(v)
          \/ Norm(<<Centered(b * InK, InN), b>>) >= Norm(v)

C3_BudgetOrShortest ==
    Returned => (Norm(e.ev) < 2^max_bitlen \/ IsShortest(e.ev))

(***************************************************************************)
(* C8.  At the top of every loop iteration the stored nu and nv are the    *)
(* exact squared norms of u and v and the stored sp is their exact scalar  *)
(* product (unsigned before the first step, two's complement after it),    *)
(* the exact values being within the width: no update wrapped.             *)
(***************************************************************************)
\* floor(x / 2^b)
RECURSIVE DivPow(_, _)
DivPow(x, b) == IF b = 0 THEN x ELSE DivPow(x \div 2, b - 1)

FitsUnsigned(x, N, w) == DivPow(x, N * w) = 0
FitsSigned(x, N, w) == DivPow(x, N * w - 1) \in {0, -1}

C8_ExactGram ==
    pc \in {"phase1", "phase2"} =>
        LET N == NLimbs(e.nu)
            w == fam.w
        IN  /\ N = IF pc = "phase1" THEN fam.N3 ELSE fam.N2
            /\ NLimbs(e.nv) = N /\ NLimbs(e.sp) = N
            /\ e.nu = ToLimbs(Norm(e.eu), N, w)
            /\ FitsUnsigned(Norm(e.eu), N, w)
            /\ e.nv = ToLimbs(Norm(e.ev), N, w)
            /\ FitsUnsigned(Norm(e.ev), N, w)
            /\ e.sp = ToLimbs(Dot(e.eu, e.ev), N, w)
            /\ IF e.first THEN FitsUnsigned(Dot(e.eu, e.ev), N, w)
                          ELSE FitsSigned(Dot(e.eu, e.ev), N, w)

\* the claim as stated: moreover no single set_add_shifted or set_sub_shifted
\* on nu wraps, that is, when the iteration starting here takes a step, the
\* exact value of nu + nv*2^(2s) is within the width of nu as well
C8_NoUpdateWraps ==
    /\ C8_ExactGram
    /\ pc \in {"phase1", "phase2"} =>
        LET a == Swap(e, fam.w)
            s == ShiftAmount(bitlength(a.sp, fam.w), bitlength(a.nv, fam.w))
            steps == IF pc = "phase1"
                     THEN Phase1Iter(e, fam, max_bitlen).pc = "phase1"
                     ELSE Phase2Iter(e, fam, max_bitlen).pc = "phase2"
        IN  steps =>
              FitsUnsigned(Norm(a.eu) + Norm(a.ev) * 2^(2 * s),
                           NLimbs(e.nu), fam.w)

\* an iteration about to step, sp negative, after earlier steps
C8_Witness ==
    /\ pc = "phase1"
    /\ ~e.first
    /\ Dot(e.eu, e.ev) < 0
    /\ e.sp = ToLimbs(Dot(e.eu, e.ev), fam.N3, fam.w)
    /\ e.eu[2] # 0

(***************************************************************************)
(* C9.  When the first loop breaks out to the shrink, nu, nv and sp fit    *)
(* the width N2: nu and nv are below 2^(N2 bits - 1), sp fits as a signed  *)
(* value (as an unsigned one before the first step), and the low N2 limbs  *)
(* are the unchanged values.                                               *)
(***************************************************************************)
C9_ShrinkFits ==
    pc = "shrink" =>
        LET w == fam.w
            hi == fam.N2..(fam.N3 - 1)
        IN  /\ \A i \in hi : e.nu[i] = 0 /\ e.nv[i] = 0
            /\ e.nu[fam.N2 - 1] < Base(w) \div 2
            /\ e.nv[fam.N2 - 1] < Base(w) \div 2
            /\ \A i \in hi :
                  e.sp[i] = IF e.first \/ e.sp[fam.N2 - 1] < Base(w) \div 2
                            THEN 0 ELSE Base(w) - 1
            /\ Low(e.nu, fam.N2) = ToLimbs(Norm(e.eu), fam.N2, w)
            /\ FitsSigned(Norm(e.eu), fam.N2, w)
            /\ Low(e.nv, fam.N2) = ToLimbs(Norm(e.ev), fam.N2, w)
            /\ FitsSigned(Norm(e.ev), fam.N2, w)
            /\ Low(e.sp, fam.N2) = ToLimbs(Dot(e.eu, e.ev), fam.N2, w)
            /\ IF e.first THEN FitsUnsigned(Dot(e.eu, e.ev), fam.N2, w)
                          ELSE FitsSigned(Dot(e.eu, e.ev), fam.N2, w)

\* a break after steps of the first loop, with a negative sp to sign-extend
C9_Witness ==
    /\ pc = "shrink"
    /\ ~e.first
    /\ is_negative(e.sp, fam.w)
    /\ Low(e.sp, fam.N2) = ToLimbs(Dot(e.eu, e.ev), fam.N2, fam.w)

(***************************************************************************)
(* C10.  bit_length(nv), computed after the swap at the top of an          *)
(* iteration, never exceeds its value at the previous iteration, across    *)
(* the first loop, the shrink and the second loop.                         *)
(***************************************************************************)
\* the value an iteration starting in this state computes after its swap
BlNvTop == bitlength(Swap(e, fam.w).nv, fam.w)

C10_NvNonIncreasing ==
    (pc \in {"phase1", "phase2"} /\ e.bl_nv >= 0) => BlNvTop <= e.bl_nv

\* an iteration of the second loop whose nv is shorter than the initial one
C10_Witness ==
    /\ pc = "phase2"
    /\ ~e.first
    /\ e.stuck = 0
    /\ BlNvTop < e.bl_nv
    /\ e.bl_nv < BitLen(InK * InK + 1)
    /\ BlNvTop > max_bitlen

(***************************************************************************)
(* C4.  For every 0 <= k < n and every max_bitlen the engine eventually    *)
(* returns: the first loop returns or breaks out after finitely many       *)
(* iterations and the second loop returns after finitely many iterations.  *)
(***************************************************************************)
\* The engine is sequential and deterministic: it returns exactly if no
\* iteration starts from the position and locals an earlier one started from.
C4_Terminates ==
    ~(mark # None /\ pc = mark.pc /\ e = mark.e)

(***************************************************************************)
(* C5.  For n of length L in 8..16, k of the same length and output slices *)
(* no longer than ceil(L/2), lagrange_vartime writes into c0 and c1 the    *)
(* low c0.len and c1.len limbs of the (v0, v1) returned by the engine      *)
(* instantiation whose operand width is L rounded up to an even count, run *)
(* with the same max_bitlen on k and n zero-extended to that length.       *)
(***************************************************************************)
ZeroExtend(a, N) == [i \in 0..N-1 |-> IF i \in DOMAIN a THEN a[i] ELSE 0]

\* the instantiation whose operands have N1 limbs
InstantiationOfWidth(N1, w) ==
    CHOOSE f \in {lagrange256_vartime(w), lagrange320_vartime(w),
                  lagrange384_vartime(w), lagrange448_vartime(w),
                  lagrange512_vartime(w)} : f.N1 = N1

CeilHalf(x) == (x + 1) \div 2

\* the preconditions the source states as its rules, but for k < n
LengthsValid(c) ==
    /\ NLimbs(c.n) >= 8
    /\ NLimbs(c.n) <= 16
    /\ NLimbs(c.k) = NLimbs(c.n)
    /\ c.c0len <= CeilHalf(NLimbs(c.n))
    /\ c.c1len <= CeilHalf(NLimbs(c.n))

C5_Dispatch ==
    (pc = "done" /\ LengthsValid(call)) =>
        LET L  == NLimbs(call.n)
            N1 == IF L % 2 = 0 THEN L ELSE L + 1
            f  == InstantiationOfWidth(N1, call.w)
            r  == Engine(f, ZeroExtend(call.k, N1), ZeroExtend(call.n, N1),
                         call.max_bitlen)
        IN  /\ fam = f
            /\ k = ZeroExtend(call.k, N1)
            /\ n = ZeroExtend(call.n, N1)
            /\ max_bitlen = call.max_bitlen
            /\ r.pc \in {"ret_budget", "ret_stall"}
            /\ out = <<Low(r.e.v0, call.c0len), Low(r.e.v1, call.c1len)>>

\* an odd length, served by the next even instantiation after a reduction,
\* the output slices shorter than the coordinates and of different lengths
C5_Witness ==
    /\ pc = "done"
    /\ LengthsValid(call)
    /\ NLimbs(call.n) = 13
    /\ fam = lagrange448_vartime(call.w)
    /\ ~e.first
    /\ call.c0len < call.c1len
    /\ call.c1len < fam.N0
    /\ out = <<Low(e.v0, call.c0len), Low(e.v1, call.c1len)>>

(***************************************************************************)
(* C6.  A call of lagrange_vartime that violates a stated precondition     *)
(* (the length of n outside 8..16, k not as long as n, k >= n, an output   *)
(* slice longer than ceil(n.len/2)) panics and never returns normally.     *)
(***************************************************************************)
C6_ViolationPanics ==
    pc = "done" =>
        /\ LengthsValid(call)
        /\ ToInt(call.k, call.w) < ToInt(call.n, call.w)

(***************************************************************************)
(* C11.  In the second loop the bit length of sp of an iteration is        *)
(* compared with that of the previous iteration of the loop (the value at  *)
(* the shrink for the first): when it went up the loop returns the current *)
(* v at once, when the count of iterations in a row without a strictly     *)
(* smaller one exceeds 3 it returns the current v, when it went down the   *)
(* count is reset to 0; so the loop never executes more than 4 steps in a  *)
(* row (3 counted from the shrink) that do not leave sp strictly shorter.  *)
(***************************************************************************)
\* what the iteration about to run from the present locals does
C11_Rules ==
    pc = "phase2" =>
        LET a   == Swap(e, fam.w)
            cur == bitlength(e.sp, fam.w)
            r   == Phase2Iter(e, fam, max_bitlen)
            ret == /\ r.pc = "ret_stall"
                   /\ r.e.v0 = a.v0
                   /\ r.e.v1 = a.v1
                   /\ r.e.ev = a.ev
        IN  /\ e.last_bl_sp = e.prev_bl_sp
            /\ e.stuck <= 3
            /\ bitlength(a.nv, fam.w) > max_bitlen =>
                /\ cur > e.prev_bl_sp => ret
                /\ (cur = e.prev_bl_sp /\ e.stuck + 1 > 3) => ret
                /\ cur < e.prev_bl_sp =>
                       r.pc = "phase2" /\ r.e.stuck = 0
                /\ (cur = e.prev_bl_sp /\ e.stuck + 1 <= 3) =>
                       r.pc = "phase2" /\ r.e.stuck = e.stuck + 1

C11_StallRule ==
    /\ C11_Rules
    /\ pc \in {"phase2", "ret_stall", "ret_budget"} => e.nodec <= 4
    /\ (pc = "phase2" /\ e.nodec = 4) =>
           e.stuck = 3

\* the count has been reset in the loop and has exceeded 3 since: a stall
\* return on an sp that did not go up
C11_Witness ==
    /\ pc = "ret_stall"
    /\ e.stuck = 4
    /\ e.nodec = 4
    /\ bitlength(e.sp, fam.w) = e.last_bl_sp

\* the claim as stated: never more than 3 such steps in a row
C11_AtMost3 ==
    /\ C11_Rules
    /\ pc \in {"phase2", "ret_stall", "ret_budget"} => e.nodec <= 3

(***************************************************************************)
(* C12.  For all a and b of the width W and every shift s >= 0,            *)
(* set_add_shifted leaves a equal to (a + b*2^s) mod 2^W and               *)
(* set_sub_shifted leaves a equal to (a - b*2^s) mod 2^W on all four       *)
(* paths; the bits of b shifted past the width are dropped, a is unchanged *)
(* when s >= W, and b is not modified.                                     *)
(***************************************************************************)
ShiftWidth == NLimbs(call.a) * call.w

C12_ShiftedAddSub ==
    pc \in {"added", "subbed"} =>
        LET M  == 2^ShiftWidth
            A  == ToInt(call.a, call.w)
            sh == ToInt(call.b, call.w) * 2^call.s
        IN  /\ DOMAIN out.a = DOMAIN call.a
            /\ \A i \in DOMAIN out.a : out.a[i] \in 0..(Base(call.w) - 1)
            /\ pc = "added"  => ToInt(out.a, call.w) = (A + sh) % M
            /\ pc = "subbed" => ToInt(out.a, call.w) = (M + A - (sh % M)) % M
            /\ call.s >= ShiftWidth => out.a = call.a
            /\ out.b = call.b

\* the fourth path (a limb shift and a bit shift), bits of b leaving the
\* width, and a borrow out of the top limb
C12_Witness ==
    /\ pc = "subbed"
    /\ call.s > call.w
    /\ call.s % call.w # 0
    /\ call.s < ShiftWidth
    /\ ToInt(call.b, call.w) * 2^call.s >= 2^ShiftWidth
    /\ ToInt(call.a, call.w) < (ToInt(call.b, call.w) * 2^call.s) % 2^ShiftWidth
    /\ out.a # call.a

(***************************************************************************)
(* C13.  bitlength of the all-zero value is 0, bitlength of the all-ones   *)
(* pattern is 0, and bitlength of 2^m is m+1 for every m from 0 to W-2;    *)
(* the pattern 2^(W-1), only the top bit set, has bitlength W-1.           *)
(***************************************************************************)
BitWidth == NLimbs(call.a) * call.w

C13_Bitlength ==
    pc = "measured" =>
        LET x == ToInt(call.a, call.w)
        IN  /\ x = 0 => out = 0
            /\ x = 2^BitWidth - 1 => out = 0
            /\ \A m \in 0..(BitWidth - 2) : x = 2^m => out = m + 1
            /\ x = 2^(BitWidth - 1) => out = BitWidth - 1

\* the all-ones pattern of the widest integer measured
C13_Witness ==
    /\ pc = "measured"
    /\ NLimbs(call.a) = BitlenMaxN
    /\ ToInt(call.a, call.w) = 2^BitWidth - 1
    /\ out = 0

\* the claim as stated: 2^m has bitlength m+1 up to m = W-1
C13_AllPowers ==
    pc = "measured" =>
        LET x == ToInt(call.a, call.w)
        IN  /\ x = 0 => out = 0
            /\ x = 2^BitWidth - 1 => out = 0
            /\ \A m \in 0..(BitWidth - 1) : x = 2^m => out = m + 1

=============================================================================
